---- MODULE Spec2Model ----
(***************************************************************************)
(* Model of buzzflix_droplet/app.py: the VideoAutoScheduler polling loop   *)
(* (check_and_create_videos), the dispatch step (trigger_lambda), the      *)
(* inbound endpoint (create_series), and the external collaborators that   *)
(* share the store (render worker, deactivation of Series/Subscriptions).  *)
(*                                                                         *)
(* Time is counted in whole days read off the clock; the period 7/f is     *)
(* kept as an exact fraction and compared by cross-multiplication.         *)
(***************************************************************************)
EXTENDS Integers, Sequences, FiniteSets, TLC

\* ------------------------------------------------------------------ bounds
MaxTime == 2        \* the clock runs over days 0..MaxTime
MaxVideos == 2      \* rows the "Video" table may hold
MaxRequests == 1    \* create_series requests served

\* ------------------------------------------------------- program constants
DaysPerWeek == 7    \* days_between = 7 / frequency

\* ------------------------------------------------------------ the store
SeriesIds == {"s1", "s2"}
SubIds == {"b1", "b2", "b3"}
\* "Series".frequency as found in the store: s1 runs at 4 or 7 videos a week,
\* s2 at 7 or with the unusable frequency 0
Frequencies(s) == IF s = "s1" THEN {4, 7} ELSE {0, 7}
Scheds == {"p1", "p2"}
Handlers == {"h1"}
Callers == Scheds \cup Handlers

\* "Series".userId: s1 belongs to u1, s2 to u2
SeriesUser(s) == IF s = "s1" THEN "u1" ELSE "u2"
\* "Subscription".userId / "Plan".name: u1 holds two subscriptions on
\* differently named plans, u2 holds one
SubUser(b) == IF b = "b3" THEN "u2" ELSE "u1"
SubPlan(b) == IF b = "b2" THEN "pro" ELSE "basic"

\* "SocialAccount" rows: a1 and a2 are TikTok accounts, a3 is not
AccountIds == {"a1", "a2", "a3"}
AccountPlatform(a) == IF a = "a3" THEN "YOUTUBE" ELSE "TIKTOK"
\* a "tokenExpiresAt" that IS NULL; the others are hours on the clock
NullTime == 0 - 1
\* hours in a day of the clock
HoursPerDay == 24

NoRow == [series_id |-> "none", plan_name |-> "none", frequency |-> 0, last_video_date |-> 0]

VARIABLES
  now,           \* datetime.utcnow(), in days
  series,        \* "Series" rows: [status, frequency, createdAt]
  subs,          \* "Subscription" rows: status
  videos,        \* "Video" rows, a sequence; a Video's id is its index
  pc,            \* position of each scheduler thread / request handler
  rows,          \* scheduler: rows of series_list not yet iterated
  current_time,  \* scheduler: current_time of the running tick
  cur,           \* scheduler: the row being processed
  payload,       \* caller: lambda_payload (video_id, series_id)
  tl,            \* caller: progress of the running/last trigger_lambda call
  posts,         \* per Video id: number of POSTs to the rendering endpoint
  resp,          \* handler: status code of the last response
  nreq,          \* number of create_series requests received
  tick,          \* scheduler: history of the running/last tick
  req,           \* handler: series_id and video_id of the request being served
  social,        \* "SocialAccount" rows: [refreshToken, accessToken, tokenExpiresAt]
  rpc,           \* position of the token refresher thread
  accounts,      \* refresher: rows of accounts not yet iterated
  account,       \* refresher: the row being processed
  new_tokens     \* refresher: what refresh_token returned for it

\* the state of the token refresher
refresherVars == <<social, rpc, accounts, account, new_tokens>>

vars == <<now, series, subs, videos, pc, rows, current_time, cur, payload, tl,
          posts, resp, nreq, tick, req, social, rpc, accounts, account, new_tokens>>

\* --------------------------------------------------------------- queries
\* mutant: the pending check counts a status no Video ever has
PendingCount_WrongStatus(vs, s) ==
  Cardinality({i \in DOMAIN vs : vs[i].seriesId = s /\ vs[i].status = "processing"})

\* SELECT COUNT(*) FROM "Video" WHERE "seriesId" = %s AND status = 'pending'
PendingCount(vs, s) ==
  Cardinality({i \in DOMAIN vs : vs[i].seriesId = s /\ vs[i].status = "pending"})

MaxOf(S) == CHOOSE m \in S : \A x \in S : x <= m

\* mutant: the last time is the Series' own createdAt, Videos are ignored
LastVideoDate_SeriesOnly(ser, vs, s) == ser[s].createdAt

\* COALESCE(MAX(v."createdAt"), s."createdAt") over the LEFT JOIN on "Video"
LastVideoDate(ser, vs, s) ==
  LET dates == {vs[i].createdAt : i \in {j \in DOMAIN vs : vs[j].seriesId = s}}
  IN IF dates = {} THEN ser[s].createdAt ELSE MaxOf(dates)

\* mutant: the filter on the Subscription's status is missing
Joined_AnySubscription(ser, sb, s, b) ==
  /\ SubUser(b) = SeriesUser(s)
  /\ ser[s].status = "active"

\* WHERE s.status = 'active' AND sub.status = 'active' over the JOINs
Joined(ser, sb, s, b) ==
  /\ SubUser(b) = SeriesUser(s)
  /\ ser[s].status = "active"
  /\ sb[b] = "active"

\* the enumeration query of a tick: one row per (s.id, p.name) group
Enumerate(ser, sb, vs) ==
  {[series_id |-> jb[1], plan_name |-> SubPlan(jb[2]),
    frequency |-> ser[jb[1]].frequency,
    last_video_date |-> LastVideoDate(ser, vs, jb[1])] :
     jb \in {x \in SeriesIds \X SubIds : Joined(ser, sb, x[1], x[2])}}

\* ------------------------------------------------------- the due-date math
\* days_between = 7 / frequency: true division, kept as the fraction num/den;
\* raises ZeroDivisionError when frequency = 0
DivRaises(frequency) == frequency = 0

\* mutant: integer division, the period is rounded down to whole days
days_between_floor(frequency) == [num |-> DaysPerWeek \div frequency, den |-> 1]

days_between(frequency) == [num |-> DaysPerWeek, den |-> frequency]

\* current_time >= last_video_date + timedelta(days=days_between)
IsDue(ct, last, d) == (ct - last) * d.den >= d.num

\* ------------------------------------------------------ exception handling
ExceptionClasses ==
  {"OperationalError", "DatabaseError", "ZeroDivisionError", "ConnectionError"}

\* mutant: the handler catches the store's errors only (except psycopg2.Error)
SchedulerCatches_StoreOnly(e) == e \in {"OperationalError", "DatabaseError"}

\* the scheduler loop's `except Exception`
SchedulerCatches(e) == e \in ExceptionClasses

\* where the thread is after a tick raised e: except, finally, sleep - or,
\* for an exception the handler does not catch, the thread has ended
AfterTickException(e) == IF SchedulerCatches(e) THEN "sleep" ELSE "dead"

PostOutcomes == {"ok", "timeout", "error"}
EmailOutcomes == {"conn_failed", "no_user", "lookup_error", "sent", "send_failed"}

\* mutant: a timeout is handled like any other transport error
AfterPost_TimeoutFails(o) == IF o = "ok" THEN "email" ELSE "swallow"

\* mutant: no outer except, a transport error leaves trigger_lambda
AfterPost_ErrorRaises(o) == IF o = "error" THEN "raise" ELSE "email"

\* what trigger_lambda does after requests.post ended with outcome o:
\* "email" (go on to the email part), "swallow" (the outer except logs a
\* general error and the function returns), "raise" (the caller sees it)
AfterPost(o) ==
  CASE o = "ok" -> "email"
    [] o = "timeout" -> "email"
    [] OTHER -> "swallow"

\* what trigger_lambda does after the email part ended with outcome e: a
\* failed get_db_connection() lands in the outer except ("swallow"); the
\* other outcomes are handled inside the email part ("return")
AfterEmail(e) == IF e = "conn_failed" THEN "swallow" ELSE "return"

NoCall == [post |-> "none", email |-> "none", err |-> FALSE, raised |-> FALSE]
NoPayload == [video_id |-> 0, series_id |-> "none"]
NoTick == [status |-> "none", clean |-> FALSE, twin |-> FALSE, base |-> 0, elig |-> {}]
\* the history of a thread whose ticks are not recorded
NoHistory == [status |-> "untracked", clean |-> FALSE, twin |-> FALSE, base |-> 0, elig |-> {}]
NoRequest == [series_id |-> "none", video_id |-> 0]

NoAccount == [id |-> "none", refreshToken |-> "", tokenExpiresAt |-> NullTime]
NoTokens == [access_token |-> "", refresh_token |-> "", expires_in |-> 0]

\* ---------------------------------------------------------------- Init
\* token_refresher = TikTokTokenRefresher(): the refresher thread
InitRefresher ==
  /\ rpc = "sleep"
  /\ accounts = {}
  /\ account = NoAccount
  /\ new_tokens = NoTokens

InitLocal ==
  /\ now = 0
  /\ rows = [p \in Scheds |-> {}]
  /\ current_time = [p \in Scheds |-> 0]
  /\ cur = [p \in Scheds |-> NoRow]
  /\ payload = [c \in Callers |-> NoPayload]
  /\ tl = [c \in Callers |-> NoCall]
  /\ posts = [v \in 1..(MaxVideos + 1) |-> 0]
  /\ resp = [h \in Handlers |-> 0]
  /\ nreq = 0
  /\ req = [h \in Handlers |-> NoRequest]
  /\ InitRefresher

\* video_scheduler = VideoAutoScheduler(): one scheduler thread, started on
\* a store holding two active Series
InitStore ==
  /\ InitLocal
  /\ social = [a \in AccountIds |-> [refreshToken |-> "r0", accessToken |-> "t0", tokenExpiresAt |-> 3]]
  /\ series \in {f \in [SeriesIds -> [status : {"active"}, frequency : {0, 4, 7}, createdAt : {0}]] :
                   \A s \in SeriesIds : f[s].frequency \in Frequencies(s)}
  /\ subs = [b \in SubIds |-> "active"]
  /\ videos = << >>
  /\ pc = [c \in Callers |-> IF c = "p1" THEN "sleep" ELSE IF c \in Scheds THEN "off" ELSE "idle"]

\* the start with the history of the ticks recorded (the history is read by
\* the properties of the tick only; it is no state of the program)
Init == InitStore /\ tick = [p \in Scheds |-> NoTick]

\* the same start, no history recorded
InitPlain == InitStore /\ tick = [p \in Scheds |-> NoHistory]

\* the same program started twice against one store: two scheduler threads
InitTwo ==
  /\ InitLocal
  /\ tick = [p \in Scheds |-> NoHistory]
  /\ social = [a \in AccountIds |-> [refreshToken |-> "r0", accessToken |-> "t0", tokenExpiresAt |-> 3]]
  /\ series = [s \in SeriesIds |->
                 [status |-> IF s = "s1" THEN "active" ELSE "inactive", frequency |-> 7, createdAt |-> 0]]
  /\ subs = [b \in SubIds |-> IF b = "b1" THEN "active" ELSE "inactive"]
  /\ videos = << >>
  /\ pc = [c \in Callers |-> IF c \in Scheds THEN "sleep" ELSE "idle"]

\* ------------------------------------------------------- the scheduler tick
\* history: base (the number of Videos when the re-run started) is kept only
\* while a re-run on the same store is still possible
Settled(tk) == IF tk.clean \/ tk.twin THEN tk ELSE [tk EXCEPT !.base = 0]

\* history: new is recorded over tk unless the thread's ticks are not recorded
Recorded(tk, new) == IF tk.status = "untracked" THEN tk ELSE new

\* the tick's try body raised e: except Exception / finally / sleep; the
\* locals of the tick are dead
TickAbort(p, e) ==
  /\ pc' = [pc EXCEPT ![p] = AfterTickException(e)]
  /\ tick' = [tick EXCEPT ![p] = Recorded(@, [NoTick EXCEPT !.status = "raised"])]
  /\ rows' = [rows EXCEPT ![p] = {}]
  /\ current_time' = [current_time EXCEPT ![p] = 0]
  /\ cur' = [cur EXCEPT ![p] = NoRow]

\* time.sleep(300) is over (or the thread has just started): the next
\* iteration of `while True` begins
WakeUp(p) ==
  /\ pc[p] = "sleep"
  /\ pc' = [pc EXCEPT ![p] = "connect"]
  /\ UNCHANGED <<now, series, subs, videos, rows, current_time, cur, payload, tl, posts, resp, nreq, tick, req>>
  /\ UNCHANGED refresherVars

\* get_db_connection() or the enumeration query raises
TickStartFail(p) ==
  /\ pc[p] = "connect"
  /\ \E e \in {"OperationalError", "DatabaseError"} : TickAbort(p, e)
  /\ UNCHANGED <<now, series, subs, videos, payload, tl, posts, resp, nreq, req>>
  /\ UNCHANGED refresherVars

\* mutant: current_time is read once, when the thread starts, not in every tick
TickStart_TimeOfStartup(p) ==
  /\ pc[p] = "connect"
  /\ rows' = [rows EXCEPT ![p] = Enumerate(series, subs, videos)]
  /\ current_time' = [current_time EXCEPT ![p] = 0]
  /\ pc' = [pc EXCEPT ![p] = "loop"]
  /\ LET again == tick[p].status = "ok" /\ tick[p].clean IN
     tick' = [tick EXCEPT ![p] = Recorded(@,
                [status |-> "running",
                 clean |-> TRUE,
                 twin |-> again,
                 base |-> IF again THEN tick[p].base ELSE Len(videos),
                 elig |-> {s \in SeriesIds :
                             /\ series[s].status = "active"
                             /\ \E b \in SubIds : SubUser(b) = SeriesUser(s) /\ subs[b] = "active"}])]
  /\ UNCHANGED <<now, series, subs, videos, cur, payload, tl, posts, resp, nreq, req>>
  /\ UNCHANGED refresherVars

\* connect, run the enumeration query, fetchall, current_time = utcnow()
TickStart(p) ==
  /\ pc[p] = "connect"
  /\ rows' = [rows EXCEPT ![p] = Enumerate(series, subs, videos)]
  /\ current_time' = [current_time EXCEPT ![p] = now]
  /\ pc' = [pc EXCEPT ![p] = "loop"]
  /\ LET again == tick[p].status = "ok" /\ tick[p].clean IN
     tick' = [tick EXCEPT ![p] = Recorded(@,
                [status |-> "running",
                 clean |-> TRUE,
                 twin |-> again,
                 base |-> IF again THEN tick[p].base ELSE Len(videos),
                 elig |-> {s \in SeriesIds :
                             /\ series[s].status = "active"
                             /\ \E b \in SubIds : SubUser(b) = SeriesUser(s) /\ subs[b] = "active"}])]
  /\ UNCHANGED <<now, series, subs, videos, cur, payload, tl, posts, resp, nreq, req>>
  /\ UNCHANGED refresherVars

\* one iteration of `for series in series_list` up to the pending check:
\* the row is not due, or it is due and a Video is already pending
EvaluateWait(p, r) ==
  /\ pc[p] = "loop"
  /\ r \in rows[p]
  /\ ~DivRaises(r.frequency)
  /\ \/ ~IsDue(current_time[p], r.last_video_date, days_between(r.frequency))
     \/ PendingCount(videos, r.series_id) # 0
  /\ rows' = [rows EXCEPT ![p] = @ \ {r}]
  /\ UNCHANGED <<now, series, subs, videos, pc, current_time, cur, payload, tl, posts, resp, nreq, tick, req>>
  /\ UNCHANGED refresherVars

\* the row is due and the pending count read is 0: go on to the INSERT
EvaluateAdmit(p, r) ==
  /\ pc[p] = "loop"
  /\ r \in rows[p]
  /\ ~DivRaises(r.frequency)
  /\ IsDue(current_time[p], r.last_video_date, days_between(r.frequency))
  /\ PendingCount(videos, r.series_id) = 0
  /\ rows' = [rows EXCEPT ![p] = @ \ {r}]
  /\ cur' = [cur EXCEPT ![p] = r]
  /\ pc' = [pc EXCEPT ![p] = "insert"]
  /\ UNCHANGED <<now, series, subs, videos, current_time, payload, tl, posts, resp, nreq, tick, req>>
  /\ UNCHANGED refresherVars

\* 7 / frequency raises (frequency 0), or the pending count query raises:
\* nothing in the loop body catches it, the tick ends
EvaluateRaise(p, r) ==
  /\ pc[p] = "loop"
  /\ r \in rows[p]
  /\ \E e \in {"ZeroDivisionError", "DatabaseError"} :
       /\ (e = "ZeroDivisionError") = DivRaises(r.frequency)
       /\ (e = "DatabaseError") =>
            IsDue(current_time[p], r.last_video_date, days_between(r.frequency))
       /\ TickAbort(p, e)
  /\ UNCHANGED <<now, series, subs, videos, payload, tl, posts, resp, nreq, req>>
  /\ UNCHANGED refresherVars

\* mutant: the Video is inserted as already being processed
NewVideo_Processing(r, ct) == [seriesId |-> r.series_id, status |-> "processing", createdAt |-> ct]

\* the row inserted by INSERT INTO "Video" ... VALUES (id, seriesId, 'pending', now, now)
NewVideo(r, ct) == [seriesId |-> r.series_id, status |-> "pending", createdAt |-> ct]

\* mutant: the payload names the Plan where the Series' id belongs
lambda_payload_PlanForSeries(video_id, r) == [video_id |-> video_id, series_id |-> r.plan_name]

\* lambda_payload of the tick: the new Video's id and the row's series_id
\* (the generation parameters it also carries are not modelled)
lambda_payload(video_id, r) == [video_id |-> video_id, series_id |-> r.series_id]

\* INSERT + conn.commit(), then lambda_payload is built and trigger_lambda entered
InsertCommit(p) ==
  /\ pc[p] = "insert"
  /\ Len(videos) < MaxVideos
  /\ videos' = Append(videos, NewVideo(cur[p], current_time[p]))
  /\ payload' = [payload EXCEPT ![p] = lambda_payload(Len(videos) + 1, cur[p])]
  /\ cur' = [cur EXCEPT ![p] = NoRow]
  /\ pc' = [pc EXCEPT ![p] = "tl_post"]
  /\ UNCHANGED <<now, series, subs, rows, current_time, tl, posts, resp, nreq, tick, req>>
  /\ UNCHANGED refresherVars

\* the INSERT or the commit raises: nothing is committed, the tick ends
InsertRaise(p) ==
  /\ pc[p] = "insert"
  /\ TickAbort(p, "DatabaseError")
  /\ UNCHANGED <<now, series, subs, videos, payload, tl, posts, resp, nreq, req>>
  /\ UNCHANGED refresherVars

\* series_list is exhausted: "Cycle de verification termine", finally, sleep
TickEnd(p) ==
  /\ pc[p] = "loop"
  /\ rows[p] = {}
  /\ pc' = [pc EXCEPT ![p] = "sleep"]
  /\ tick' = [tick EXCEPT ![p] = Recorded(@, Settled([@ EXCEPT !.status = "ok", !.twin = FALSE, !.elig = {}]))]
  /\ current_time' = [current_time EXCEPT ![p] = 0]
  /\ UNCHANGED <<now, series, subs, videos, rows, cur, payload, tl, posts, resp, nreq, req>>
  /\ UNCHANGED refresherVars

\* ------------------------------------------------------------ trigger_lambda
\* requests.post(AWS_LAMBDA_ENDPOINT, json=payload, timeout=1)
TLPost(c) ==
  /\ pc[c] = "tl_post"
  /\ posts' = [posts EXCEPT ![payload[c].video_id] = @ + 1]
  /\ \E o \in PostOutcomes :
       LET a == AfterPost(o) IN
       /\ tl' = [tl EXCEPT ![c] = [post |-> o, email |-> "none",
                                    err |-> (a = "swallow"), raised |-> (a = "raise")]]
       /\ pc' = [pc EXCEPT ![c] = IF a = "email" THEN "tl_email" ELSE "tl_done"]
  /\ UNCHANGED <<now, series, subs, videos, rows, current_time, cur, payload, resp, nreq, tick, req>>
  /\ UNCHANGED refresherVars

\* trigger_lambda is over for caller c; raised says whether an exception
\* left it.  In a scheduler tick the for loop goes on with the next row of
\* series_list (or the tick ends on the exception); create_series answers
\* with the success envelope (or with the outer except's 500).
Return(c, raised) ==
  /\ IF c \in Scheds
     THEN /\ IF raised
             THEN TickAbort(c, "ConnectionError")
             ELSE /\ pc' = [pc EXCEPT ![c] = "loop"]
                  /\ UNCHANGED <<tick, rows, current_time, cur>>
          /\ UNCHANGED resp
     ELSE /\ pc' = [pc EXCEPT ![c] = "respond"]
          /\ resp' = [resp EXCEPT ![c] = IF raised THEN 500 ELSE 200]
          /\ UNCHANGED <<tick, rows, current_time, cur>>
  /\ payload' = [payload EXCEPT ![c] = NoPayload]
  /\ tl' = [tl EXCEPT ![c] = NoCall]

\* the email part: connect, SELECT u.email, send_video_notification; then
\* trigger_lambda returns
TLEmail(c) ==
  /\ pc[c] = "tl_email"
  /\ \E e \in EmailOutcomes : Return(c, AfterEmail(e) = "raise")
  /\ UNCHANGED <<now, series, subs, videos, posts, nreq, req>>
  /\ UNCHANGED refresherVars

\* the outer except of trigger_lambda has logged the error of the POST (or
\* has not caught it): trigger_lambda returns (or raises)
TLReturn(c) ==
  /\ pc[c] = "tl_done"
  /\ Return(c, tl[c].raised)
  /\ UNCHANGED <<now, series, subs, videos, posts, nreq, req>>
  /\ UNCHANGED refresherVars

\* ------------------------------------------------------------ create_series
\* the lookup SELECT ... FROM "Video" v JOIN "Series" s WHERE v.id = %s AND s.id = %s
Lookup(vs, sid, vid) ==
  IF vid \in DOMAIN vs /\ vs[vid].seriesId = sid THEN vs[vid].status ELSE "none"

\* mutant: the test of the Video's status is missing
LookupCode_AnyStatus(st) == IF st = "none" THEN 404 ELSE 0

\* the status code create_series answers with before any dispatch; 0: go on
LookupCode(st) ==
  CASE st = "none" -> 404
    [] st = "pending" -> 0
    [] OTHER -> 400

\* POST /create_series with body {series_id, video_id}
CreateSeries(h, sid, vid) ==
  /\ pc[h] = "idle"
  /\ nreq < MaxRequests
  /\ nreq' = nreq + 1
  /\ req' = [req EXCEPT ![h] = [series_id |-> sid, video_id |-> vid]]
  /\ LET code == LookupCode(Lookup(videos, sid, vid)) IN
       /\ resp' = [resp EXCEPT ![h] = code]
       /\ IF code = 0
          THEN /\ payload' = [payload EXCEPT ![h] = [video_id |-> vid, series_id |-> sid]]
               /\ pc' = [pc EXCEPT ![h] = "tl_post"]
          ELSE /\ pc' = [pc EXCEPT ![h] = "respond"]
               /\ UNCHANGED payload
  /\ UNCHANGED <<now, series, subs, videos, rows, current_time, cur, tl, posts, tick>>
  /\ UNCHANGED refresherVars

\* request.json, get_db_connection() or the lookup raises: the outer except
CreateSeriesRaise(h) ==
  /\ pc[h] = "idle"
  /\ nreq < MaxRequests
  /\ nreq' = nreq + 1
  /\ resp' = [resp EXCEPT ![h] = 500]
  /\ pc' = [pc EXCEPT ![h] = "respond"]
  /\ UNCHANGED <<now, series, subs, videos, rows, current_time, cur, payload, tl, posts, tick, req>>
  /\ UNCHANGED refresherVars

\* the envelope is sent, the handler is free for the next request
Respond(h) ==
  /\ pc[h] = "respond"
  /\ pc' = [pc EXCEPT ![h] = "idle"]
  /\ resp' = [resp EXCEPT ![h] = 0]
  /\ req' = [req EXCEPT ![h] = NoRequest]
  /\ UNCHANGED <<now, series, subs, videos, rows, current_time, cur, payload, tl, posts, nreq, tick>>
  /\ UNCHANGED refresherVars

\* ------------------------------------------------------ TikTokTokenRefresher
\* seconds of the default 'expires_in', in hours
DefaultExpiresIn == 24

\* what the token endpoint may answer: not response.ok, an exception (from
\* requests.post, response.json() or a missing 'access_token'), or a token
\* set, with or without a new refresh token and with or without 'expires_in'
TokenOutcomes ==
  ({"rejected", "raised"} \X {"kept"} \X {0}) \cup ({"ok"} \X {"rotated", "kept"} \X {12, DefaultExpiresIn})

\* refresh_token(refresh_token): None (NoTokens) or the new token set
refresh_token(tok, o) ==
  IF o[1] \in {"rejected", "raised"}
  THEN NoTokens
  ELSE [access_token |-> "t1",
        refresh_token |-> IF o[2] = "rotated" THEN "r1" ELSE tok,
        expires_in |-> o[3]]

\* SELECT id, "userId", "refreshToken", "tokenExpiresAt" FROM "SocialAccount"
\* WHERE platform = 'TIKTOK' AND "tokenExpiresAt" IS NOT NULL
AccountsQuery(sa) ==
  {[id |-> a, refreshToken |-> sa[a].refreshToken, tokenExpiresAt |-> sa[a].tokenExpiresAt] :
     a \in {x \in AccountIds : AccountPlatform(x) = "TIKTOK" /\ sa[x].tokenExpiresAt # NullTime}}

\* the refresher's except Exception: the cycle is over, the locals are dead
RefreshAbort ==
  /\ rpc' = "sleep"
  /\ accounts' = {}
  /\ account' = NoAccount
  /\ new_tokens' = NoTokens

\* time.sleep(3600) is over (or the thread has just started)
RefreshWake ==
  /\ rpc = "sleep"
  /\ rpc' = "connect"
  /\ UNCHANGED <<social, accounts, account, new_tokens>>
  /\ UNCHANGED <<now, series, subs, videos, pc, rows, current_time, cur, payload, tl, posts, resp, nreq, tick, req>>

\* connect, run the accounts query, fetchall
RefreshStart ==
  /\ rpc = "connect"
  /\ rpc' = "loop"
  /\ accounts' = AccountsQuery(social)
  /\ UNCHANGED <<social, account, new_tokens>>
  /\ UNCHANGED <<now, series, subs, videos, pc, rows, current_time, cur, payload, tl, posts, resp, nreq, tick, req>>

\* get_db_connection() or the accounts query raises
RefreshStartFail ==
  /\ rpc = "connect"
  /\ RefreshAbort
  /\ UNCHANGED social
  /\ UNCHANGED <<now, series, subs, videos, pc, rows, current_time, cur, payload, tl, posts, resp, nreq, tick, req>>

\* `if not refresh_token: ... continue`
AccountSkip(r) ==
  /\ rpc = "loop"
  /\ r \in accounts
  /\ r.refreshToken = ""
  /\ accounts' = accounts \ {r}
  /\ UNCHANGED <<social, rpc, account, new_tokens>>
  /\ UNCHANGED <<now, series, subs, videos, pc, rows, current_time, cur, payload, tl, posts, resp, nreq, tick, req>>

\* self.refresh_token(refresh_token) is entered: the POST to the token endpoint
AccountCall(r) ==
  /\ rpc = "loop"
  /\ r \in accounts
  /\ r.refreshToken # ""
  /\ accounts' = accounts \ {r}
  /\ account' = r
  /\ rpc' = "refresh"
  /\ UNCHANGED <<social, new_tokens>>
  /\ UNCHANGED <<now, series, subs, videos, pc, rows, current_time, cur, payload, tl, posts, resp, nreq, tick, req>>

\* refresh_token returns: with None the loop goes on with the next account,
\* with a token set it goes on to the UPDATE
AccountReturn ==
  /\ rpc = "refresh"
  /\ \E o \in TokenOutcomes :
       LET nt == refresh_token(account.refreshToken, o) IN
       IF nt = NoTokens
       THEN /\ rpc' = "loop"
            /\ account' = NoAccount
            /\ UNCHANGED new_tokens
       ELSE /\ rpc' = "update"
            /\ new_tokens' = nt
            /\ UNCHANGED account
  /\ UNCHANGED <<social, accounts>>
  /\ UNCHANGED <<now, series, subs, videos, pc, rows, current_time, cur, payload, tl, posts, resp, nreq, tick, req>>

\* UPDATE "SocialAccount" SET ... WHERE id = account_id, conn.commit()
AccountUpdate ==
  /\ rpc = "update"
  /\ social' = [social EXCEPT ![account.id] =
                  [refreshToken |-> new_tokens.refresh_token,
                   accessToken |-> new_tokens.access_token,
                   tokenExpiresAt |-> now * HoursPerDay + new_tokens.expires_in]]
  /\ rpc' = "loop"
  /\ account' = NoAccount
  /\ new_tokens' = NoTokens
  /\ UNCHANGED accounts
  /\ UNCHANGED <<now, series, subs, videos, pc, rows, current_time, cur, payload, tl, posts, resp, nreq, tick, req>>

\* the UPDATE or the commit raises: nothing in the for loop catches it
AccountUpdateRaise ==
  /\ rpc = "update"
  /\ RefreshAbort
  /\ UNCHANGED social
  /\ UNCHANGED <<now, series, subs, videos, pc, rows, current_time, cur, payload, tl, posts, resp, nreq, tick, req>>

\* accounts is exhausted: close, sleep
RefreshEnd ==
  /\ rpc = "loop"
  /\ accounts = {}
  /\ rpc' = "sleep"
  /\ UNCHANGED <<social, accounts, account, new_tokens>>
  /\ UNCHANGED <<now, series, subs, videos, pc, rows, current_time, cur, payload, tl, posts, resp, nreq, tick, req>>

\* ------------------------------------------------- external collaborators
\* the status the render worker leaves a Video in.  The worker also writes
\* 'failed'; the program reads both alike (it only ever tests for 'pending')
FinalStatuses == {"completed"}

\* the render worker moves a Video out of 'pending'
WorkerFinish(v, st) ==
  /\ v \in DOMAIN videos
  /\ videos[v].status = "pending"
  /\ videos' = [videos EXCEPT ![v].status = st]
  /\ tick' = [p \in Scheds |-> Settled([tick[p] EXCEPT !.clean = @ /\ v > tick[p].base,
                                                       !.twin = @ /\ v > tick[p].base])]
  /\ UNCHANGED <<now, series, subs, pc, rows, current_time, cur, payload, tl, posts, resp, nreq, req>>
  /\ UNCHANGED refresherVars

\* a Series is deactivated externally
DeactivateSeries(s) ==
  /\ series[s].status = "active"
  /\ series' = [series EXCEPT ![s].status = "inactive"]
  /\ tick' = [p \in Scheds |-> Settled([tick[p] EXCEPT !.clean = FALSE, !.twin = FALSE])]
  /\ UNCHANGED <<now, subs, videos, pc, rows, current_time, cur, payload, tl, posts, resp, nreq, req>>
  /\ UNCHANGED refresherVars

\* a Subscription is deactivated externally
DeactivateSub(b) ==
  /\ subs[b] = "active"
  /\ subs' = [subs EXCEPT ![b] = "inactive"]
  /\ tick' = [p \in Scheds |-> Settled([tick[p] EXCEPT !.clean = FALSE, !.twin = FALSE])]
  /\ UNCHANGED <<now, series, videos, pc, rows, current_time, cur, payload, tl, posts, resp, nreq, req>>
  /\ UNCHANGED refresherVars

\* the process is stopped at any point and started again: the threads and
\* their locals are gone, the new process starts its scheduler and refresher
\* threads and an idle request handler; the store and the clock are as they
\* were
Restart ==
  /\ pc' = [c \in Callers |-> IF c \in Handlers THEN "idle" ELSE IF pc[c] = "off" THEN "off" ELSE "sleep"]
  /\ rows' = [p \in Scheds |-> {}]
  /\ current_time' = [p \in Scheds |-> 0]
  /\ cur' = [p \in Scheds |-> NoRow]
  /\ payload' = [c \in Callers |-> NoPayload]
  /\ tl' = [c \in Callers |-> NoCall]
  /\ resp' = [h \in Handlers |-> 0]
  /\ req' = [h \in Handlers |-> NoRequest]
  /\ tick' = [p \in Scheds |-> Recorded(tick[p], NoTick)]
  /\ rpc' = "sleep"
  /\ accounts' = {}
  /\ account' = NoAccount
  /\ new_tokens' = NoTokens
  /\ UNCHANGED <<now, series, subs, videos, posts, nreq, social>>

\* the process is stopped between a Video's commit and the POST of its
\* dispatch, and started again
RestartBeforeDispatch ==
  /\ \E p \in Scheds : pc[p] = "tl_post"
  /\ Restart

\* a day passes
Advance ==
  /\ now < MaxTime
  /\ now' = now + 1
  /\ tick' = [p \in Scheds |-> Settled([tick[p] EXCEPT !.clean = FALSE])]
  /\ UNCHANGED <<series, subs, videos, pc, rows, current_time, cur, payload, tl, posts, resp, nreq, req>>
  /\ UNCHANGED refresherVars

\* ------------------------------------------------------------------ Next
\* the program (scheduler thread and request handler) with the render worker
\* and the clock
Next ==
  \/ \E p \in Scheds : WakeUp(p)
  \/ \E p \in Scheds : TickStart(p)
  \/ \E p \in Scheds : TickStartFail(p)
  \/ \E p \in Scheds : \E r \in rows[p] : EvaluateWait(p, r)
  \/ \E p \in Scheds : \E r \in rows[p] : EvaluateAdmit(p, r)
  \/ \E p \in Scheds : \E r \in rows[p] : EvaluateRaise(p, r)
  \/ \E p \in Scheds : InsertCommit(p)
  \/ \E p \in Scheds : InsertRaise(p)
  \/ \E p \in Scheds : TickEnd(p)
  \/ \E c \in Callers : TLPost(c)
  \/ \E c \in Callers : TLEmail(c)
  \/ \E c \in Callers : TLReturn(c)
  \/ \E h \in Handlers : \E sid \in SeriesIds : \E vid \in 1..MaxVideos : CreateSeries(h, sid, vid)
  \/ \E h \in Handlers : CreateSeriesRaise(h)
  \/ \E h \in Handlers : Respond(h)
  \/ \E v \in 1..MaxVideos : \E st \in FinalStatuses : WorkerFinish(v, st)
  \/ Advance

Spec == InitPlain /\ [][Next]_vars

\* the scheduler thread alone, with the render worker, the clock and the
\* external deactivation of Series and Subscriptions
NextTick ==
  \/ \E p \in Scheds : WakeUp(p)
  \/ \E p \in Scheds : TickStart(p)
  \/ \E p \in Scheds : TickStartFail(p)
  \/ \E p \in Scheds : \E r \in rows[p] : EvaluateWait(p, r)
  \/ \E p \in Scheds : \E r \in rows[p] : EvaluateAdmit(p, r)
  \/ \E p \in Scheds : \E r \in rows[p] : EvaluateRaise(p, r)
  \/ \E p \in Scheds : InsertCommit(p)
  \/ \E p \in Scheds : InsertRaise(p)
  \/ \E p \in Scheds : TickEnd(p)
  \/ \E p \in Scheds : TLPost(p)
  \/ \E p \in Scheds : TLEmail(p)
  \/ \E p \in Scheds : TLReturn(p)
  \/ \E v \in 1..MaxVideos : \E st \in FinalStatuses : WorkerFinish(v, st)
  \/ \E s \in SeriesIds : DeactivateSeries(s)
  \/ \E b \in SubIds : DeactivateSub(b)
  \/ Advance

SpecTick == Init /\ [][NextTick]_vars

SpecTwo == InitTwo /\ [][NextTick]_vars

\* the scheduler thread with the render worker and the clock, in a process
\* that may be restarted at any point
NextRestart ==
  \/ \E p \in Scheds : WakeUp(p)
  \/ \E p \in Scheds : TickStart(p)
  \/ \E p \in Scheds : TickStartFail(p)
  \/ \E p \in Scheds : \E r \in rows[p] : EvaluateWait(p, r)
  \/ \E p \in Scheds : \E r \in rows[p] : EvaluateAdmit(p, r)
  \/ \E p \in Scheds : \E r \in rows[p] : EvaluateRaise(p, r)
  \/ \E p \in Scheds : InsertCommit(p)
  \/ \E p \in Scheds : InsertRaise(p)
  \/ \E p \in Scheds : TickEnd(p)
  \/ \E p \in Scheds : TLPost(p)
  \/ \E p \in Scheds : TLEmail(p)
  \/ \E p \in Scheds : TLReturn(p)
  \/ \E v \in 1..MaxVideos : \E st \in FinalStatuses : WorkerFinish(v, st)
  \/ Restart
  \/ Advance

SpecRestart == Init /\ [][NextRestart]_vars

\* the scheduler thread on a store that stays reachable and whose Series
\* stay as they are, subscribed and with a frequency above 0 (s1 is active,
\* s2 may be inactive from the start); the process may be
\* restarted between a commit and its dispatch.  The thread keeps running
\* (sleep, the store and trigger_lambda all return), the clock keeps going,
\* and the render worker finishes every Video a POST was made for.
InitStarve ==
  /\ InitLocal
  /\ tick = [p \in Scheds |-> NoHistory]
  /\ social = [a \in AccountIds |-> [refreshToken |-> "r0", accessToken |-> "t0", tokenExpiresAt |-> 3]]
  /\ series \in {f \in [SeriesIds -> [status : {"active", "inactive"}, frequency : {4, 7}, createdAt : {0}]] :
                   /\ f["s1"].status = "active"
                   /\ \A s \in SeriesIds : f[s].frequency \in Frequencies(s)}
  /\ subs = [b \in SubIds |-> "active"]
  /\ videos = << >>
  /\ pc = [c \in Callers |-> IF c = "p1" THEN "sleep" ELSE IF c \in Scheds THEN "off" ELSE "idle"]

\* a step of scheduler thread p with the store answering
SchedulerStep(p) ==
  \/ WakeUp(p)
  \/ TickStart(p)
  \/ \E r \in rows[p] : EvaluateWait(p, r)
  \/ \E r \in rows[p] : EvaluateAdmit(p, r)
  \/ InsertCommit(p)
  \/ TickEnd(p)
  \/ TLPost(p)
  \/ TLEmail(p)
  \/ TLReturn(p)

NextStarve ==
  \/ \E p \in Scheds : SchedulerStep(p)
  \/ \E v \in 1..MaxVideos : \E st \in FinalStatuses : WorkerFinish(v, st)
  \/ RestartBeforeDispatch
  \/ Advance

SpecStarve ==
  /\ InitStarve
  /\ [][NextStarve]_vars
  /\ \A p \in Scheds : WF_vars(SchedulerStep(p))
  /\ \A v \in 1..MaxVideos : WF_vars(posts[v] >= 1 /\ \E st \in FinalStatuses : WorkerFinish(v, st))
  /\ WF_vars(Advance)

\* the request handler alone, with the render worker, on a store in which a
\* Video may already exist (the front end creates the Video a request names)
\* and Subscriptions may be inactive
InitServe ==
  /\ InitLocal
  /\ tick = [p \in Scheds |-> NoHistory]
  /\ social = [a \in AccountIds |-> [refreshToken |-> "r0", accessToken |-> "t0", tokenExpiresAt |-> 3]]
  /\ series \in {f \in [SeriesIds -> [status : {"active"}, frequency : {0, 4, 7}, createdAt : {0}]] :
                   \A s \in SeriesIds : f[s].frequency \in Frequencies(s)}
  /\ subs \in [SubIds -> {"active", "inactive"}]
  /\ videos \in {<< >>} \cup
                {<<v>> : v \in [seriesId : SeriesIds, status : {"pending", "completed"}, createdAt : {0}]}
  /\ pc = [c \in Callers |-> IF c \in Scheds THEN "off" ELSE "idle"]

NextServe ==
  \/ \E h \in Handlers : \E sid \in SeriesIds : \E vid \in 1..MaxVideos : CreateSeries(h, sid, vid)
  \/ \E h \in Handlers : CreateSeriesRaise(h)
  \/ \E h \in Handlers : Respond(h)
  \/ \E h \in Handlers : TLPost(h)
  \/ \E h \in Handlers : TLEmail(h)
  \/ \E h \in Handlers : TLReturn(h)
  \/ \E v \in 1..MaxVideos : \E st \in FinalStatuses : WorkerFinish(v, st)

SpecServe == InitServe /\ [][NextServe]_vars

\* the token refresher thread alone, with the clock, on a store whose
\* accounts may lack a refresh token or an expiry and expire sooner or later
InitRefresh ==
  /\ InitLocal
  /\ tick = [p \in Scheds |-> NoHistory]
  /\ series = [s \in SeriesIds |-> [status |-> "inactive", frequency |-> 7, createdAt |-> 0]]
  /\ subs = [b \in SubIds |-> "inactive"]
  /\ videos = << >>
  /\ pc = [c \in Callers |-> IF c \in Scheds THEN "off" ELSE "idle"]
  /\ social \in [AccountIds -> [refreshToken : {"", "r0"}, accessToken : {"t0"},
                                 tokenExpiresAt : {NullTime, 3, 12}]]

NextRefresh ==
  \/ RefreshWake
  \/ RefreshStart
  \/ RefreshStartFail
  \/ \E r \in accounts : AccountSkip(r)
  \/ \E r \in accounts : AccountCall(r)
  \/ AccountReturn
  \/ AccountUpdate
  \/ AccountUpdateRaise
  \/ RefreshEnd
  \/ Advance

SpecRefresh == InitRefresh /\ [][NextRefresh]_vars

\* time.sleep(300) returns: a sleeping scheduler thread wakes up
SpecLive == Init /\ [][NextTick]_vars /\ \A p \in Scheds : WF_vars(WakeUp(p))

\* ================================================================ claims
\* the positions inside trigger_lambda
InDispatch == {"tl_post", "tl_email", "tl_done"}

\* C1: in every reachable state each Series has at most one Video with
\* status 'pending', with the scheduler thread, create_series requests and
\* the render worker interleaved in any order.
C1_AtMostOnePending ==
  \A s \in SeriesIds :
    Cardinality({i \in DOMAIN videos :
                   videos[i].seriesId = s /\ videos[i].status = "pending"}) <= 1

\* C1 witness: a Series has its one pending Video while the running tick
\* still holds a due row for that Series and create_series is dispatching
C1_Witness ==
  /\ pc["h1"] = "tl_post"
  /\ pc["p1"] = "loop"
  /\ \E r \in rows["p1"] :
       /\ r.frequency > 0
       /\ (current_time["p1"] - r.last_video_date) * r.frequency >= 7
       /\ \E i \in DOMAIN videos :
            videos[i].seriesId = r.series_id /\ videos[i].status = "pending"

\* C2: the pending check and the insert act as one atomic step: whenever a
\* scheduler commits its INSERT for a Series, that Series still has no
\* pending Video, so of N concurrent admission steps exactly one inserts.
C2_AtomicAdmission ==
  [][\A p \in Scheds :
       (pc[p] = "insert" /\ pc'[p] = "tl_post") =>
          ~\E i \in DOMAIN videos :
             videos[i].seriesId = cur[p].series_id /\ videos[i].status = "pending"]_vars

\* C3: for every row of the enumeration with frequency f > 0 and last time
\* t0 that the tick evaluates, the tick admits the Series if and only if
\* current_time >= t0 + 7/f days (7/f exact, equality counts as due) and the
\* Series has no pending Video; the insert of an admitted row adds exactly
\* one Video, 'pending', of that Series, created at current_time; and no
\* Video is added in any other way.
C3_AdmitIffDueAndNoPending ==
  [][/\ \A p \in Scheds : \A r \in rows[p] :
          ( /\ pc[p] = "loop"
            /\ r.frequency > 0
            /\ rows'[p] = rows[p] \ {r}
            /\ pc'[p] \in {"loop", "insert"} )
          => ( (pc'[p] = "insert" /\ cur'[p] = r)
               <=> ( /\ (current_time[p] - r.last_video_date) * r.frequency >= 7
                     /\ ~\E i \in DOMAIN videos :
                          videos[i].seriesId = r.series_id /\ videos[i].status = "pending" ) )
     /\ \A p \in Scheds :
          (pc[p] = "insert" /\ pc'[p] = "tl_post")
          => videos' = Append(videos, [seriesId |-> cur[p].series_id, status |-> "pending",
                                        createdAt |-> current_time[p]])
     /\ (Len(videos') # Len(videos))
          => \E p \in Scheds : pc[p] = "insert" /\ pc'[p] = "tl_post"]_vars

\* C3 witness: a Series at 4 videos a week (period 1.75 days) has been
\* admitted on day 2, and of a Series at 7 a week a Video is created exactly
\* one period after the Series
C3_Witness ==
  /\ pc["p1"] = "insert"
  /\ cur["p1"].frequency = 4
  /\ current_time["p1"] = 2
  /\ \E i \in DOMAIN videos :
       /\ series[videos[i].seriesId].frequency = 7
       /\ videos[i].createdAt = series[videos[i].seriesId].createdAt + 1

\* C4: a tick run again on the same store with no time passing creates no
\* Video, whether or not the Videos of the first tick are still 'pending'.
C4_SecondTickInsertsNothing ==
  [][(\E p \in Scheds : tick[p].twin) => Len(videos') = Len(videos)]_vars

\* C4 witness: the second tick has gone through all its rows after the
\* worker finished a Video the first tick had inserted
C4_Witness ==
  /\ tick["p1"].twin
  /\ pc["p1"] = "loop"
  /\ rows["p1"] = {}
  /\ \E i \in DOMAIN videos : i > tick["p1"].base /\ videos[i].status = "completed"

\* C5 (as claimed): the scheduler never inserts a Video for a Series that
\* is not 'active' or whose owner has no 'active' Subscription, also when
\* the deactivation happens while the tick is running.
C5_NeverInsertsForIneligible ==
  [][\A p \in Scheds :
       (pc[p] = "insert" /\ pc'[p] = "tl_post") =>
          /\ series[cur[p].series_id].status = "active"
          /\ \E b \in SubIds :
               SubUser(b) = SeriesUser(cur[p].series_id) /\ subs[b] = "active"]_vars

\* C5 (amended): the scheduler never inserts a Video for a Series that was
\* not 'active', or whose owner had no 'active' Subscription, when the
\* tick's enumeration query ran, however overdue; a Series or Subscription
\* deactivated after that query can still get a Video in the same tick.
C5_NeverInsertsForIneligibleAtEnumeration ==
  [][\A p \in Scheds :
       /\ (pc[p] = "insert" /\ pc'[p] = "tl_post") => cur[p].series_id \in tick[p].elig
       /\ (Len(videos') # Len(videos)) =>
            \E q \in Scheds : pc[q] = "insert" /\ pc'[q] = "tl_post"]_vars

\* C5 witness: a tick has gone through all its rows and left out a Series
\* that was not eligible at the enumeration, though it is overdue with no
\* pending Video
C5_Witness ==
  \E s \in SeriesIds :
    /\ pc["p1"] = "loop"
    /\ rows["p1"] = {}
    /\ s \notin tick["p1"].elig
    /\ series[s].frequency > 0
    /\ \A i \in DOMAIN videos : videos[i].seriesId # s
    /\ (current_time["p1"] - series[s].createdAt) * series[s].frequency >= 7

\* C6: a failure while processing one Series does not stop the tick: the
\* tick never ends while rows of other Series are still to be evaluated.
C6_FailureIsolation ==
  [][\A p \in Scheds :
       /\ (pc[p] = "loop" /\ pc'[p] \notin {"loop", "insert"})
            => ~\E r1, r2 \in rows[p] : r1.series_id # r2.series_id
       /\ (pc[p] = "insert" /\ pc'[p] # "tl_post")
            => ~\E r \in rows[p] : r.series_id # cur[p].series_id]_vars

\* C7: the scheduler thread never ends, and after a tick that raised a
\* further tick eventually begins.
C7_LoopSurvivesErrors ==
  \A p \in {"p1"} :
    /\ [](pc[p] # "dead")
    /\ (tick[p].status = "raised") ~> (pc[p] = "connect")

\* C7 witness: the tick before raised and the next iteration has begun
C7_Witness == pc["p1"] = "connect" /\ tick["p1"].status = "raised"

\* C8: a timeout of the POST is treated as a success: no error is recorded,
\* trigger_lambda is in its email part exactly as after a completed POST,
\* and it returns normally to its caller.
C8_TimeoutIsSuccess ==
  [][\A c \in Callers :
       /\ (tl'[c].post \in {"ok", "timeout"})
            => (pc'[c] = "tl_email" /\ ~tl'[c].err /\ ~tl'[c].raised)
       /\ (pc[c] = "tl_email" /\ pc'[c] # "tl_email")
            => /\ c \in Scheds => (pc'[c] = "loop" /\ rows'[c] = rows[c])
               /\ c \in Handlers => (pc'[c] = "respond" /\ resp'[c] = 200)]_vars

\* C8 witness: the POST timed out and trigger_lambda is in its email part
C8_Witness == \E c \in Callers : pc[c] = "tl_email" /\ tl[c].post = "timeout"

\* C9: trigger_lambda never raises into its caller, the steps of a dispatch
\* leave every Video row as it is, and when it is over the scheduler goes on
\* with the remaining rows of the tick (create_series answers 200).
C9_DispatchNeverRaises ==
  [][\A c \in Callers :
       /\ ~tl'[c].raised
       /\ (pc[c] \in InDispatch /\ (pc'[c] # pc[c] \/ tl'[c] # tl[c]))
            => videos' = videos
       /\ (pc[c] \in InDispatch /\ pc'[c] \notin InDispatch)
            => /\ c \in Scheds => (pc'[c] = "loop" /\ rows'[c] = rows[c])
               /\ c \in Handlers => (pc'[c] = "respond" /\ resp'[c] = 200)]_vars

\* C9 witness: the POST of a tick's dispatch failed with a transport error,
\* the Video is still 'pending', and rows are left for the tick to go on with
C9_Witness ==
  \E p \in Scheds :
    /\ pc[p] = "tl_done"
    /\ tl[p].post = "error"
    /\ tl[p].err
    /\ videos[payload[p].video_id].status = "pending"
    /\ rows[p] # {}

\* C10: for every Video at most one POST to the rendering endpoint is ever
\* attempted, over any sequence of ticks and create_series requests.
C10_AtMostOnePostPerVideo == \A v \in DOMAIN posts : posts[v] <= 1

\* C11: in a scheduler tick trigger_lambda is entered only by the step that
\* commits a new 'pending' Video, with a payload carrying that Video's id
\* and its Series' id; the POST is made once, for that Video, before the
\* tick goes on with the next row; a row the tick decides to wait for
\* changes no Video and causes no POST.
C11_DispatchFollowsCommit ==
  [][\A p \in Scheds :
       /\ (pc'[p] = "tl_post" /\ pc[p] # "tl_post")
            => /\ pc[p] = "insert"
               /\ Len(videos') = Len(videos) + 1
               /\ videos'[Len(videos')].status = "pending"
               /\ payload'[p].video_id = Len(videos')
               /\ payload'[p].series_id = videos'[Len(videos')].seriesId
               /\ posts[Len(videos')] = 0
       /\ (posts' # posts)
            => \E q \in Scheds :
                 /\ pc[q] = "tl_post"
                 /\ posts' = [posts EXCEPT ![payload[q].video_id] = @ + 1]
       /\ (pc[p] \in InDispatch /\ pc'[p] \notin InDispatch)
            => posts[payload[p].video_id] = 1
       /\ (pc[p] = "loop" /\ pc'[p] = "loop" /\ rows'[p] # rows[p])
            => (videos' = videos /\ posts' = posts)]_vars

\* C11 witness: the tick has committed a Video, its one POST has been made,
\* and the tick is back in its loop with rows left
C11_Witness ==
  \E p \in Scheds : \E v \in DOMAIN videos :
    /\ pc[p] = "loop"
    /\ rows[p] # {}
    /\ current_time[p] > 0
    /\ videos[v].createdAt = current_time[p]
    /\ posts[v] = 1

\* C12: create_series answers a request with one envelope whose code follows
\* from the lookup: 404 when no Video with the request's video_id belongs to
\* its series_id, 400 when that Video is not 'pending', 500 when something
\* raised, and otherwise 200 after exactly one POST for that Video; a
\* request answered with 404, 400 or 500 causes no POST.
C12_EnvelopeFollowsLookup ==
  [][\A h \in Handlers :
       LET sid == req'[h].series_id
           vid == req'[h].video_id
           found == vid \in DOMAIN videos /\ videos[vid].seriesId = sid
       IN
       /\ (pc[h] = "idle" /\ pc'[h] # "idle")
            => \/ pc'[h] = "respond" /\ resp'[h] = 500 /\ posts' = posts
               \/ pc'[h] = "respond" /\ resp'[h] = 404 /\ posts' = posts /\ ~found
               \/ /\ pc'[h] = "respond" /\ resp'[h] = 400 /\ posts' = posts
                  /\ found /\ videos[vid].status # "pending"
               \/ /\ pc'[h] = "tl_post" /\ payload'[h] = req'[h]
                  /\ found /\ videos[vid].status = "pending"
       /\ (pc'[h] = "tl_post") => pc[h] \in {"idle", "tl_post"}
       /\ (pc[h] = "tl_post" /\ pc'[h] # "tl_post")
            => /\ posts' = [posts EXCEPT ![req[h].video_id] = @ + 1]
               /\ pc'[h] \in {"tl_email", "tl_done"}
       /\ (pc[h] \in {"tl_email", "tl_done"} /\ pc'[h] # pc[h])
            => (pc'[h] = "respond" /\ resp'[h] = 200 /\ posts' = posts)
       /\ (pc[h] = "respond" /\ pc'[h] # "respond") => pc'[h] = "idle"]_vars

\* C12 witness: a request naming a Video the worker has finished is being
\* answered with 400
C12_Witness ==
  \E h \in Handlers :
    /\ pc[h] = "respond"
    /\ resp[h] = 400
    /\ videos[req[h].video_id].status = "completed"
    /\ posts[req[h].video_id] = 1

\* C13: a create_series request for a Series whose owner has no 'active'
\* Subscription is answered with 403 and enters no dispatch, also when the
\* Video it names exists and is 'pending'.
C13_NotEntitledIs403 ==
  [][\A h \in Handlers :
       ( /\ pc[h] = "idle" /\ pc'[h] # "idle"
         /\ req'[h] # NoRequest
         /\ ~\E b \in SubIds :
               SubUser(b) = SeriesUser(req'[h].series_id) /\ subs[b] = "active" )
       => /\ pc'[h] = "respond"
          /\ ( /\ req'[h].video_id \in DOMAIN videos
               /\ videos[req'[h].video_id].seriesId = req'[h].series_id
               /\ videos[req'[h].video_id].status = "pending" )
             => resp'[h] = 403]_vars

\* C14: the dispatch is detached from the response path of create_series:
\* the thread serving the request hands trigger_lambda to the worker pool
\* and goes straight on to its response, it never executes the POST or the
\* email step itself.
C14_DispatchDetached ==
  [][\A h \in Handlers : (pc[h] = "idle" /\ pc'[h] # "idle") => pc'[h] = "respond"]_vars

\* the tier whose Series are single-shot (no pre-scheduling)
EntryTier == "basic"

\* C15: when create_series has admitted a request (answer 200) for a Series
\* with frequency f whose owner holds an 'active' Subscription on a tier
\* other than the entry tier, the store holds exactly f future Videos of
\* that Series, dated k * 7/f days after now for k = 1..f (each with its
\* Schedule Entry); for a Series on the entry tier it holds none.
C15_PreSchedulesOnePeriod ==
  [][\A h \in Handlers :
       (pc'[h] = "respond" /\ pc[h] # "respond" /\ resp'[h] = 200)
       => LET s == req[h].series_id
              f == series[s].frequency
              future == {i \in DOMAIN videos' :
                           videos'[i].seriesId = s /\ videos'[i].createdAt > now}
              nonEntry == \E b \in SubIds : /\ SubUser(b) = SeriesUser(s)
                                            /\ subs[b] = "active"
                                            /\ SubPlan(b) # EntryTier
          IN IF nonEntry
             THEN /\ Cardinality(future) = f
                  /\ \A k \in 1..f : \E i \in future :
                       (videos'[i].createdAt - now) * f = DaysPerWeek * k
             ELSE future = {}]_vars

\* C16: a step of the scheduler tick, of trigger_lambda or of create_series
\* leaves every Series and Subscription row and every existing Video row as
\* it is: the only change to the store is the tick's INSERT, which appends
\* one Video with status 'pending'; a step of create_series (its dispatch
\* included) changes nothing in the store.
C16_OnlyAddsPendingVideos ==
  [][/\ (pc' # pc \/ rows' # rows \/ tl' # tl \/ payload' # payload \/ posts' # posts)
          => /\ series' = series
             /\ subs' = subs
             /\ \/ videos' = videos
                \/ /\ \E p \in Scheds : pc[p] = "insert" /\ pc'[p] # "insert"
                   /\ Len(videos') = Len(videos) + 1
                   /\ SubSeq(videos', 1, Len(videos)) = videos
                   /\ videos'[Len(videos')].status = "pending"
     /\ \A h \in Handlers :
          (pc'[h] # pc[h] \/ tl'[h] # tl[h] \/ req'[h] # req[h]) => videos' = videos]_vars

\* C16 witness: the tick has inserted a Video next to one the worker has
\* finished, and create_series has run its dispatch and is answering 200
C16_Witness ==
  /\ pc["h1"] = "respond"
  /\ resp["h1"] = 200
  /\ \E i, j \in DOMAIN videos :
       videos[i].status = "completed" /\ videos[j].status = "pending"

\* C17: a tick takes nothing from the ticks before it or from the process
\* it runs in: when a tick starts, restarted process or not, its rows are
\* the enumeration of the store as it is and its current_time is the clock;
\* it admits a row exactly when that row is due at current_time and the
\* store holds no pending Video of the Series; a restart changes nothing in
\* the store; and no Series ever has two 'pending' Videos.
C17_TicksDependOnStoreAndClockOnly ==
  [][/\ \A p \in Scheds :
          /\ (pc[p] = "connect" /\ pc'[p] = "loop")
               => /\ rows'[p] = Enumerate(series, subs, videos)
                  /\ current_time'[p] = now
          /\ \A r \in rows[p] :
               (pc[p] = "loop" /\ r.frequency > 0 /\ rows'[p] = rows[p] \ {r} /\ pc'[p] \in {"loop", "insert"})
               => ( pc'[p] = "insert"
                    <=> ( /\ (current_time[p] - r.last_video_date) * r.frequency >= DaysPerWeek
                          /\ ~\E i \in DOMAIN videos :
                               videos[i].seriesId = r.series_id /\ videos[i].status = "pending" ) )
          /\ (pc[p] \notin {"sleep", "off"} /\ pc'[p] = "sleep" /\ tick'[p] = NoTick)
               => (videos' = videos /\ series' = series /\ subs' = subs /\ now' = now)
     /\ \A s \in SeriesIds :
          Cardinality({i \in DOMAIN videos' :
                         videos'[i].seriesId = s /\ videos'[i].status = "pending"}) <= 1]_vars

\* C17 witness: the process was restarted between a Video's commit and its
\* POST, and a tick of the new process holds a due row of that Series, whose
\* Video is still 'pending'
C17_Witness ==
  \E p \in Scheds : \E r \in rows[p] : \E v \in DOMAIN videos :
    /\ pc[p] = "loop"
    /\ videos[v].seriesId = r.series_id
    /\ videos[v].status = "pending"
    /\ posts[v] = 0
    /\ r.frequency > 0
    /\ (current_time[p] - r.last_video_date) * r.frequency >= DaysPerWeek

\* C18: in a refresh cycle the failure of one account does not end the
\* cycle: the cycle is left only when no fetched account remains to be
\* processed; an account whose refresh failed keeps its stored tokens; and
\* the refresher thread never ends.
C18_AccountFailureIsolation ==
  [][/\ (rpc \in {"loop", "refresh", "update"} /\ rpc' \notin {"loop", "refresh", "update"})
          => accounts = {}
     /\ (rpc = "refresh" /\ rpc' = "loop") => social' = social
     /\ (rpc = "update" /\ rpc' = "sleep") => social' = social
     /\ rpc' \in {"sleep", "connect", "loop", "refresh", "update"}]_vars

\* C19: the email step of trigger_lambda does not depend on the POST: after
\* the POST, whatever its outcome (answered, timed out, or failed with
\* another transport error), trigger_lambda goes on to the email lookup and
\* the notification send.
C19_EmailAfterEveryPost ==
  [][\A c \in Callers : (pc[c] = "tl_post" /\ pc'[c] # "tl_post") => pc'[c] = "tl_email"]_vars

\* C20: a refresh cycle leaves alone an account whose tokenExpiresAt is
\* more than 6 hours after the current time: it is not sent to the token
\* endpoint and its row is not updated.
C20_RefreshesOnlyExpiring ==
  [][/\ (rpc = "loop" /\ rpc' = "refresh")
          => account'.tokenExpiresAt <= now * 24 + 6
     /\ \A a \in AccountIds :
          (social'[a] # social[a]) => social[a].tokenExpiresAt <= now * 24 + 6]_vars

\* C21: a tick inserts at most one Video for a Series: when a tick commits
\* its INSERT for a Series, the store holds no Video of that Series created
\* at this tick's current_time (with one scheduler thread such a Video can
\* only be one this tick has inserted for another row of the same Series),
\* whatever the render worker has done to it in between.
C21_OneVideoPerSeriesPerTick ==
  [][\A p \in Scheds :
       (pc[p] = "insert" /\ pc'[p] = "tl_post")
       => ~\E i \in DOMAIN videos :
             /\ videos[i].seriesId = cur[p].series_id
             /\ videos[i].createdAt = current_time[p]
             /\ videos[i].createdAt > cur[p].last_video_date]_vars

\* by the store and the clock a new Video of Series s is due, and the
\* "Video" table has room for it
Waiting(s) ==
  /\ series[s].status = "active"
  /\ \E b \in SubIds : SubUser(b) = SeriesUser(s) /\ subs[b] = "active"
  /\ series[s].frequency > 0
  /\ LET dates == {videos[i].createdAt : i \in {j \in DOMAIN videos : videos[j].seriesId = s}}
         last == IF dates = {} THEN series[s].createdAt
                 ELSE CHOOSE m \in dates : \A x \in dates : x <= m
     IN (now - last) * series[s].frequency >= DaysPerWeek
  /\ Len(videos) < MaxVideos

\* C22: no Series is left waiting forever: with the Series active,
\* subscribed and its frequency above 0, the store reachable and the worker
\* finishing every Video it was notified of, a Series whose next Video is
\* due gets it inserted, also after a failed dispatch and after a restart
\* between a commit and its dispatch.
C22_NoSeriesWaitsForever ==
  \A s \in SeriesIds : [](Waiting(s) => <>(~Waiting(s)))

====
